---- MODULE Spec2Model ----
(***************************************************************************)
(* Receipt API (src/main.go): a receipt store with two HTTP handlers,      *)
(* CreateReceipt (validate, assign an id, append) and GetReceiptByID       *)
(* (look up, score).  Text is modelled as a sequence of one-character      *)
(* strings, so that the patterns, the parsers and the slicing of the code  *)
(* are computed character by character.                                    *)
(***************************************************************************)
EXTENDS Integers, Sequences, FiniteSets, TLC

VARIABLES
    receipts,   \* the package-level slice `receipts`
    req,        \* the request being answered (none before the first one)
    resp,       \* the answer written for req
    issued,     \* history: id returned by a successful CreateReceipt -> receipt as decoded
    pc,         \* per concurrent CreateReceipt handler: its position
    local,      \* per concurrent CreateReceipt handler: slice header it read, receipt, id
    arg,        \* scorer harness: the argument of the call
    ret         \* scorer harness: the function called and its result

vars == <<receipts, req, resp, issued, pc, local, arg, ret>>

----------------------------------------------------------------------------
(* Characters *)

Digits == {"0", "1", "2", "3", "4", "5", "6", "7", "8", "9"}

Letters ==
    {"a", "b", "c", "d", "e", "f", "g", "h", "i", "j", "k", "l", "m",
     "n", "o", "p", "q", "r", "s", "t", "u", "v", "w", "x", "y", "z",
     "A", "B", "C", "D", "E", "F", "G", "H", "I", "J", "K", "L", "M",
     "N", "O", "P", "Q", "R", "S", "T", "U", "V", "W", "X", "Y", "Z"}

\* unicode.IsDigit / unicode.IsLetter on the ASCII range
IsDigit(c) == c \in Digits

IsLetter(c) == c \in Letters

\* regexp class \w
IsWord(c) == IsLetter(c) \/ IsDigit(c) \/ c = "_"

\* regexp class \s, which is also what strings.TrimSpace removes among the
\* characters the description pattern admits
IsSpace(c) == c \in {" ", "\t", "\n", "\f", "\r"}

DigitVal(c) ==
    CASE c = "0" -> 0 [] c = "1" -> 1 [] c = "2" -> 2 [] c = "3" -> 3
      [] c = "4" -> 4 [] c = "5" -> 5 [] c = "6" -> 6 [] c = "7" -> 7
      [] c = "8" -> 8 [] c = "9" -> 9

RECURSIVE DecVal(_)
\* value of a sequence of decimal digits
DecVal(ds) ==
    IF ds = <<>> THEN 0
    ELSE 10 * DecVal(SubSeq(ds, 1, Len(ds) - 1)) + DigitVal(ds[Len(ds)])

RECURSIVE Pow10(_)
Pow10(n) == IF n = 0 THEN 1 ELSE 10 * Pow10(n - 1)

AllDigits(s) == \A i \in 1..Len(s) : IsDigit(s[i])

\* Go's % : the remainder takes the sign of the dividend
GoRem(a, b) == IF a >= 0 THEN a % b ELSE -((-a) % b)

----------------------------------------------------------------------------
(* Library calls of the scorer *)

\* strconv.ParseFloat(s, 64) on texts made of signs, digits, '.' and other
\* characters that are no part of a number (no exponent, hex, Inf or NaN
\* spelling is in the alphabets used).  The value is sign * mant / 10^frac.
ParseFloat(s) ==
    LET signed == Len(s) > 0 /\ s[1] \in {"+", "-"}
        body   == IF signed THEN Tail(s) ELSE s
        dots   == {i \in 1..Len(body) : body[i] = "."}
        digs   == SelectSeq(body, IsDigit)
        ok     == /\ \A i \in 1..Len(body) : IsDigit(body[i]) \/ body[i] = "."
                  /\ Cardinality(dots) <= 1
                  /\ Len(digs) >= 1
    IN  [err  |-> ~ok,
         neg  |-> signed /\ s[1] = "-",
         mant |-> IF ok THEN DecVal(digs) ELSE 0,
         frac |-> IF ok /\ dots # {} THEN Len(body) - (CHOOSE i \in dots : TRUE) ELSE 0]

\* int(math.Round(f * 100)): nearest integer, halves away from zero
RoundCents(f) ==
    LET d == Pow10(f.frac)
        m == (2 * f.mant * 100 + d) \div (2 * d)
    IN  IF f.neg THEN -m ELSE m

\* int(math.Ceil(f * .2))
CeilFifth(f) ==
    LET d == 5 * Pow10(f.frac)
    IN  IF f.neg THEN -(f.mant \div d) ELSE (f.mant + d - 1) \div d

\* strconv.Atoi
Atoi(s) ==
    LET signed == Len(s) > 0 /\ s[1] \in {"+", "-"}
        body   == IF signed THEN Tail(s) ELSE s
        ok     == Len(body) >= 1 /\ AllDigits(body)
    IN  [err |-> ~ok,
         val |-> IF ~ok THEN 0
                 ELSE IF signed /\ s[1] = "-" THEN -DecVal(body) ELSE DecVal(body)]

RECURSIVE TrimLeft(_)
TrimLeft(s) == IF s # <<>> /\ IsSpace(s[1]) THEN TrimLeft(Tail(s)) ELSE s

RECURSIVE TrimRight(_)
TrimRight(s) ==
    IF s # <<>> /\ IsSpace(s[Len(s)]) THEN TrimRight(SubSeq(s, 1, Len(s) - 1)) ELSE s

\* mutant: the trailing whitespace is left in place
TrimSpace_LeftOnly(s) == TrimLeft(s)

\* strings.TrimSpace
TrimSpace(s) == TrimRight(TrimLeft(s))

----------------------------------------------------------------------------
(* Scorer *)

GetAlphanumeric(str) ==
    Cardinality({i \in 1..Len(str) : IsLetter(str[i]) \/ IsDigit(str[i])})

\* mutant: the multiple-of-25 test is taken only when the round-dollar test fails
GetTotalCostPoints_ElseIf(costStr) ==
    LET costFloat == ParseFloat(costStr)
        costInt   == RoundCents(costFloat)
    IN  IF costFloat.err THEN 0
        ELSE IF GoRem(costInt, 100) = 0 THEN 50
        ELSE IF GoRem(costInt, 25) = 0 THEN 25
        ELSE 0

GetTotalCostPoints(costStr) ==
    LET costFloat == ParseFloat(costStr)
        costInt   == RoundCents(costFloat)
    IN  IF costFloat.err THEN 0
        ELSE (IF GoRem(costInt, 100) = 0 THEN 50 ELSE 0)
           + (IF GoRem(costInt, 25) = 0 THEN 25 ELSE 0)

\* mutant: the description length is tested for a multiple of 2
ItemStep_EvenLength(item, numItems) ==
    LET pair    == IF GoRem(numItems, 2) = 0 THEN 5 ELSE 0
        trimmed == TrimSpace(item.ShortDescription)
        length  == Len(trimmed)
        itemPriceFloat == ParseFloat(item.Price)
    IN  pair + (IF GoRem(length, 2) = 0 /\ ~itemPriceFloat.err
                THEN CeilFifth(itemPriceFloat) ELSE 0)

\* the body of the loop of GetItemPoints for one item: the points it adds
\* once numItems has been incremented
ItemStep(item, numItems) ==
    LET pair    == IF GoRem(numItems, 2) = 0 THEN 5 ELSE 0
        trimmed == TrimSpace(item.ShortDescription)
        length  == Len(trimmed)
        itemPriceFloat == ParseFloat(item.Price)
    IN  pair + (IF GoRem(length, 3) = 0 /\ ~itemPriceFloat.err
                THEN CeilFifth(itemPriceFloat) ELSE 0)

RECURSIVE ItemLoop(_, _, _)

\* mutant: a price that does not parse ends the loop
ItemLoop_AbortOnParseError(items, i, points) ==
    IF i > Len(items) THEN points
    ELSE IF ParseFloat(items[i].Price).err THEN points
    ELSE ItemLoop(items, i + 1, points + ItemStep(items[i], i))

\* the loop of GetItemPoints from item i on, with the points so far
ItemLoop(items, i, points) ==
    IF i > Len(items) THEN points
    ELSE ItemLoop(items, i + 1, points + ItemStep(items[i], i))

GetItemPoints(receipt) == ItemLoop(receipt.Items, 1, 0)

\* dateString[len(dateString)-2:] and timeString[:2] panic on a shorter text
GetDatePointsPanics(dateString) == Len(dateString) < 2

GetDatePoints(dateString) ==
    LET day == Atoi(SubSeq(dateString, Len(dateString) - 1, Len(dateString)))
    IN  IF ~day.err /\ GoRem(day.val, 2) = 1 THEN 6 ELSE 0

GetTimePointsPanics(timeString) == Len(timeString) < 2

GetTimePoints(timeString) ==
    LET time == Atoi(SubSeq(timeString, 1, 2))
    IN  IF ~time.err /\ time.val >= 14 /\ time.val < 16 THEN 10 ELSE 0

GetReceiptPointsPanics(receipt) ==
    GetDatePointsPanics(receipt.PurchaseDate) \/ GetTimePointsPanics(receipt.PurchaseTime)

GetReceiptPoints(receipt) ==
    GetAlphanumeric(receipt.Retailer)
      + GetTotalCostPoints(receipt.Total)
      + GetItemPoints(receipt)
      + GetDatePoints(receipt.PurchaseDate)
      + GetTimePoints(receipt.PurchaseTime)

----------------------------------------------------------------------------
(* Validator *)

\* regexp ^[\w\s\-&]+$
CheckValidDescription(str) ==
    /\ Len(str) >= 1
    /\ \A i \in 1..Len(str) : IsWord(str[i]) \/ IsSpace(str[i]) \/ str[i] \in {"-", "&"}

\* regexp \d+\.\d{2}$ : anchored at the end of the text only
CheckPriceValidity(str) ==
    LET n == Len(str)
    IN  /\ n >= 4
        /\ IsDigit(str[n - 3])
        /\ str[n - 2] = "."
        /\ IsDigit(str[n - 1])
        /\ IsDigit(str[n])

IsLeap(year) == (year % 4 = 0 /\ year % 100 # 0) \/ year % 400 = 0

DaysIn(month, year) ==
    IF month = 2 THEN (IF IsLeap(year) THEN 29 ELSE 28)
    ELSE IF month \in {4, 6, 9, 11} THEN 30 ELSE 31

\* time.Parse("2006-01-02", s) succeeds: four digits, two digits, two digits,
\* month and day in range, nothing after
ParseDateOk(s) ==
    /\ Len(s) = 10
    /\ AllDigits(SubSeq(s, 1, 4)) /\ s[5] = "-"
    /\ AllDigits(SubSeq(s, 6, 7)) /\ s[8] = "-"
    /\ AllDigits(SubSeq(s, 9, 10))
    /\ LET year  == DecVal(SubSeq(s, 1, 4))
           month == DecVal(SubSeq(s, 6, 7))
           day   == DecVal(SubSeq(s, 9, 10))
       IN  month >= 1 /\ month <= 12 /\ day >= 1 /\ day <= DaysIn(month, year)

\* time.Parse("15:04", s) succeeds: the hour "15" takes one or two digits,
\* the minute "04" exactly two, hour < 24, minute < 60, nothing after
ParseClockOk(s) ==
    /\ Len(s) >= 1 /\ IsDigit(s[1])
    /\ LET h == IF Len(s) >= 2 /\ IsDigit(s[2]) THEN 2 ELSE 1
       IN  /\ Len(s) = h + 3
           /\ s[h + 1] = ":"
           /\ AllDigits(SubSeq(s, h + 2, h + 3))
           /\ DecVal(SubSeq(s, 1, h)) < 24
           /\ DecVal(SubSeq(s, h + 2, h + 3)) < 60

CheckValidTime(dateString, timeString) ==
    ParseDateOk(dateString) /\ ParseClockOk(timeString)

\* regexp ^[\w\s\-]+$
DescPatternMatch(str) ==
    /\ Len(str) >= 1
    /\ \A i \in 1..Len(str) : IsWord(str[i]) \/ IsSpace(str[i]) \/ str[i] = "-"

CheckItemsValidity(receipt) ==
    /\ Len(receipt.Items) >= 1
    /\ \A i \in 1..Len(receipt.Items) :
          /\ CheckPriceValidity(receipt.Items[i].Price)
          /\ DescPatternMatch(receipt.Items[i].ShortDescription)

----------------------------------------------------------------------------
(* Texts used as inputs *)

MaxTextLen == 4

\* every text of at most n characters over an alphabet
TextsOver(alphabet, n) == UNION {[1..k -> alphabet] : k \in 0..n}

\* amounts: digits, the point, a sign and a letter.  No "5" among the digits:
\* with three or more fraction digits a "5" would put total*100 on a rounding
\* tie, whose side depends on the binary value of the float
AmountAlphabet == {"0", "2", "9", ".", "-", "a"}

AmountTexts ==
    TextsOver(AmountAlphabet, MaxTextLen)
      \cup {<<"9",".","0","0">>, <<"9",".","2","5">>, <<"9",".","1","0">>,
            <<"9",".","5","0">>, <<"9",".","7","5">>, <<"1","0",".","0">>,
            <<"3","5",".","3","5">>, <<"1","2",".","2","5">>, <<"1","0",".","0","0">>,
            <<"-","5",".","0","0">>, <<"+","5",".","0","0">>, <<"a","1",".","0","0">>,
            <<"-","9",".","2","5">>, <<"1","2",".","0","0">>, <<"0",".","0","1">>}

Target == <<"T","a","r","g","e","t">>

MMCornerMarket ==
    <<"M","&","M"," ","C","o","r","n","e","r"," ","M","a","r","k","e","t">>

MountainDew == <<"M","o","u","n","t","a","i","n"," ","D","e","w"," ","1","2","P","K">>

EmilsCheesePizza ==
    <<"E","m","i","l","s"," ","C","h","e","e","s","e"," ","P","i","z","z","a">>

KnorrCreamyChicken ==
    <<"K","n","o","r","r"," ","C","r","e","a","m","y"," ","C","h","i","c","k","e","n">>

DoritosNachoCheese ==
    <<"D","o","r","i","t","o","s"," ","N","a","c","h","o"," ","C","h","e","e","s","e">>

Klarbrunn ==
    <<" "," "," ","K","l","a","r","b","r","u","n","n"," ","1","2","-","P","K"," ",
      "1","2"," ","F","L"," ","O","Z"," "," ">>

Gatorade == <<"G","a","t","o","r","a","d","e">>

Item(desc, price) == [ShortDescription |-> desc, Price |-> price]

MakeReceipt(retailer, date, time, items, total) ==
    [ID |-> <<>>, Retailer |-> retailer, PurchaseDate |-> date,
     PurchaseTime |-> time, Items |-> items, Total |-> total]

ExampleItems ==
    << Item(MountainDew, <<"6",".","4","9">>),
       Item(EmilsCheesePizza, <<"1","2",".","2","5">>),
       Item(KnorrCreamyChicken, <<"1",".","2","6">>),
       Item(DoritosNachoCheese, <<"3",".","3","5">>),
       Item(Klarbrunn, <<"1","2",".","0","0">>) >>

ExampleReceipt ==
    MakeReceipt(Target, <<"2","0","2","2","-","0","1","-","0","1">>,
                <<"1","3",":","0","1">>, ExampleItems, <<"3","5",".","3","5">>)

----------------------------------------------------------------------------
(* Scorer harness: one call of a scoring function on an argument *)

NoCall == [fn |-> "none", val |-> 0]

\* what a handler wrote: the status, and the id, the points or an error text
Response(status, kind, val) == [status |-> status, kind |-> kind, val |-> val]

NoResponse == Response(0, "none", <<>>)

ItemDescs ==
    {EmilsCheesePizza, Gatorade, Klarbrunn, MountainDew, <<"a","b","c">>,
     <<" ","a","b","c","\t">>, <<" "," ">>}

ScoreRetailers == {Target, MMCornerMarket, <<"&">>, <<"_","-">>}

ScoreDates ==
    {<<"2","0","2","2","-","0","1","-","0","1">>, <<"2","0","2","2","-","0","3","-","2","0">>,
     <<"2","0","2","4","-","0","2","-","2","9">>}

ScoreTimes ==
    {<<"1","3",":","0","1">>, <<"1","4",":","3","3">>, <<"1","5",":","5","9">>,
     <<"1","6",":","0","0">>, <<"1","3",":","5","9">>, <<"9",":","0","5">>}

ScoreItemLists ==
    {ExampleItems,
     << Item(Gatorade, <<"2",".","2","5">>) >>,
     << Item(Gatorade, <<"2",".","2","5">>), Item(MountainDew, <<"6",".","4","9">>) >>,
     << Item(Gatorade, <<"2",".","2","5">>), Item(MountainDew, <<"6",".","4","9">>),
        Item(Gatorade, <<"2",".","2","5">>), Item(MountainDew, <<"6",".","4","9">>) >>,
     << Item(<<"a","b","c">>, <<"a","1",".","0","0">>),
        Item(EmilsCheesePizza, <<"1","2",".","2","5">>) >>,
     << Item(<<"a","b","c">>, <<"-","1","0","0",".","0","0">>) >>}

ScoreTotals ==
    {<<"3","5",".","3","5">>, <<"9",".","0","0">>, <<"9",".","2","5">>,
     <<"9",".","1","0">>, <<"a","1",".","0","0">>}

ScoreArgs ==
    {[kind |-> "total", text |-> t] : t \in AmountTexts}
      \cup {[kind |-> "item", item |-> Item(d, p)] : d \in ItemDescs, p \in AmountTexts}
      \cup {[kind |-> "receipt", receipt |-> MakeReceipt(r, d, t, i, c)] :
               r \in ScoreRetailers, d \in ScoreDates, t \in ScoreTimes,
               i \in ScoreItemLists, c \in ScoreTotals}

ScoreInit ==
    /\ arg \in ScoreArgs
    /\ ret = NoCall
    /\ receipts = <<>> /\ req = [op |-> "none"] /\ resp = NoResponse
    /\ issued = {} /\ pc = <<>> /\ local = <<>>

CallGetTotalCostPoints ==
    /\ arg.kind = "total" /\ ret = NoCall
    /\ ret' = [fn |-> "GetTotalCostPoints", val |-> GetTotalCostPoints(arg.text)]
    /\ UNCHANGED <<receipts, req, resp, issued, pc, local, arg>>

\* GetItemPoints on a receipt holding the one item
CallGetItemPoints ==
    /\ arg.kind = "item" /\ ret = NoCall
    /\ ret' = [fn |-> "GetItemPoints",
               val |-> GetItemPoints([Items |-> <<arg.item>>])]
    /\ UNCHANGED <<receipts, req, resp, issued, pc, local, arg>>

CallGetReceiptPoints ==
    /\ arg.kind = "receipt" /\ ret = NoCall
    /\ ~GetReceiptPointsPanics(arg.receipt)
    /\ ret' = [fn |-> "GetReceiptPoints", val |-> GetReceiptPoints(arg.receipt)]
    /\ UNCHANGED <<receipts, req, resp, issued, pc, local, arg>>

ScoreNext == CallGetTotalCostPoints \/ CallGetItemPoints \/ CallGetReceiptPoints

SpecScore == ScoreInit /\ [][ScoreNext]_vars

----------------------------------------------------------------------------
(* The service: requests answered one at a time *)

MaxReceipts == 2

NumIds == 3

\* the texts uuid.New().String() can return, all different
Uuid(n) == <<"u", n>>

Ids == {Uuid(n) : n \in 1..NumIds}

\* the zero value of Receipt, what Decode leaves when it stores nothing
ZeroReceipt == MakeReceipt(<<>>, <<>>, <<>>, <<>>, <<>>)

\* A request body.  json "syntax": not a JSON value.  Otherwise an object
\* holding the five fields as strings, except that the keys in `mistyped`
\* hold a number where the struct field is a string.
Body(receipt, mistyped) == [json |-> "object", receipt |-> receipt, mistyped |-> mistyped]

SyntaxErrorBody == [json |-> "syntax", receipt |-> ZeroReceipt, mistyped |-> {}]

\* json.NewDecoder(r.Body).Decode(&receipt): a syntax error stores nothing;
\* a number for a string field leaves that field alone, decodes the others
\* and returns an UnmarshalTypeError
Decode(body) ==
    IF body.json = "syntax" THEN [err |-> TRUE, receipt |-> ZeroReceipt]
    ELSE [err |-> body.mistyped # {},
          receipt |-> [body.receipt EXCEPT
                          !.Total = IF "total" \in body.mistyped THEN <<>> ELSE @]]

SvcDate == <<"2","0","2","2","-","0","1","-","0","1">>

SvcTimes == {<<"9",":","0","5">>}

SvcItemLists ==
    {<< Item(<<"a","b","c">>, <<"a","1",".","0","0">>),
        Item(EmilsCheesePizza, <<"1","2",".","2","5">>) >>,
     << Item(<<"a","b","c">>, <<"-","1","0","0",".","0","0">>) >>}

SvcTotal == <<"a","1",".","0","0">>

\* an accepted receipt
SvcBase ==
    MakeReceipt(<<"&">>, SvcDate, <<"1","4",":","3","3">>,
                << Item(Gatorade, <<"2",".","2","5">>) >>, SvcTotal)

\* receipts that differ from SvcBase in one field, which fails its check
SvcVariants ==
    {[SvcBase EXCEPT !.Retailer = v] : v \in {<<>>, <<"M",".","M">>}}
      \cup {[SvcBase EXCEPT !.PurchaseDate = v] :
               v \in {<<"2","0","2","2","-","1","3","-","0","1">>,
                      <<"2","0","2","2","-","0","2","-","2","9">>}}
      \cup {[SvcBase EXCEPT !.PurchaseTime = v] :
               v \in {<<"2","5",":","0","0">>, <<"1","4",":","6","0">>}}
      \cup {[SvcBase EXCEPT !.Items = v] :
               v \in {<<>>, << Item(Gatorade, <<"1","0",".","0">>) >>,
                      << Item(Gatorade, <<"2",".","2","5">>),
                         Item(<<"a",".","c">>, <<"2",".","2","5">>) >>}}
      \cup {[SvcBase EXCEPT !.Total = v] : v \in {<<"1","0",".","0">>}}

\* receipts the four checks accept
SvcAccepted ==
    {SvcBase} \cup {MakeReceipt(<<"&">>, SvcDate, t, i, SvcTotal) :
                       t \in SvcTimes, i \in SvcItemLists}

Bodies ==
    {SyntaxErrorBody}
      \cup {Body(r, m) : r \in SvcAccepted, m \in {{}, {"id"}}}
      \cup {Body(r, {}) : r \in SvcVariants}
      \cup {Body(SvcBase, {"total"})}

Init ==
    /\ receipts = <<>>
    /\ req = [op |-> "none"]
    /\ resp = NoResponse
    /\ issued = {}
    /\ pc = <<>> /\ local = <<>>
    /\ arg = [kind |-> "none"] /\ ret = NoCall

\* the four checks of CreateReceipt, in its order
Validate(receipt) ==
    /\ CheckValidDescription(receipt.Retailer)
    /\ CheckValidTime(receipt.PurchaseDate, receipt.PurchaseTime)
    /\ CheckItemsValidity(receipt)
    /\ CheckPriceValidity(receipt.Total)

\* ids GenerateID has not returned yet
FreshIds == Ids \ {receipts[i].ID : i \in 1..Len(receipts)}

CreateReceipt(body) ==
    LET receipt == Decode(body).receipt
    IN  /\ req' = [op |-> "create", body |-> body]
        /\ IF ~Validate(receipt)
           THEN /\ resp' = Response(400, "error", <<>>)
                /\ UNCHANGED <<receipts, issued>>
           ELSE /\ Len(receipts) < MaxReceipts
                /\ \E id \in FreshIds :
                      /\ receipts' = Append(receipts, [receipt EXCEPT !.ID = id])
                      /\ resp' = Response(200, "id", id)
                      /\ issued' = issued \cup {[id |-> id, receipt |-> receipt]}
        /\ UNCHANGED <<pc, local, arg, ret>>

\* mutant: the comparison of the loop is inverted
Matches_Inverted(id) == {i \in 1..Len(receipts) : receipts[i].ID # id}

\* indices of the stored receipts with that ID; the loop returns at the first
Matches(id) == {i \in 1..Len(receipts) : receipts[i].ID = id}

FirstMatch(id) == CHOOSE i \in Matches(id) : \A j \in Matches(id) : i <= j

GetReceiptByID(id) ==
    /\ req' = [op |-> "get", id |-> id]
    /\ resp' = IF Matches(id) = {}
               THEN Response(404, "error", <<>>)
               ELSE IF GetReceiptPointsPanics(receipts[FirstMatch(id)])
               THEN Response(0, "panic", <<>>)
               ELSE Response(200, "points", GetReceiptPoints(receipts[FirstMatch(id)]))
    /\ UNCHANGED <<receipts, issued, pc, local, arg, ret>>

Next ==
    \/ \E body \in Bodies : CreateReceipt(body)
    \/ \E id \in Ids \cup {<<>>} : GetReceiptByID(id)

Spec == Init /\ [][Next]_vars

----------------------------------------------------------------------------
(* The service with CreateReceipt handlers running concurrently.  net/http  *)
(* runs each request in its own goroutine and the code takes no lock, so   *)
(* `receipts = append(receipts, receipt)` is a read of the slice header, the *)
(* append, and a write of the new header, with other handlers in between.  *)
(* The race is modelled by the outcomes of that interleaving: both appends *)
(* kept, or the later write replacing what the earlier one stored.         *)

NumHandlers == 2

Handlers == 1..NumHandlers

NoLocal == [receipt |-> ZeroReceipt, slice |-> <<>>, status |-> 0]

ConcInit ==
    /\ receipts = <<>>
    /\ req = [op |-> "none"]
    /\ resp = NoResponse
    /\ issued = {}
    /\ pc = [h \in Handlers |-> "idle"]
    /\ local = [h \in Handlers |-> NoLocal]
    /\ arg = [kind |-> "none"] /\ ret = NoCall

\* ids already returned by GenerateID to some handler
TakenIds == {local[h].receipt.ID : h \in Handlers}

\* lines 193-228: decode, validate, answer 400 or generate the id
ConcValidate(h, body) ==
    LET receipt == Decode(body).receipt
    IN  /\ pc[h] = "idle"
        /\ IF ~Validate(receipt)
           THEN /\ pc' = [pc EXCEPT ![h] = "done"]
                /\ local' = [local EXCEPT ![h] = [NoLocal EXCEPT !.status = 400]]
           ELSE \E id \in Ids \ TakenIds :
                   /\ pc' = [pc EXCEPT ![h] = "read"]
                   /\ local' = [local EXCEPT
                                   ![h] = [NoLocal EXCEPT !.receipt = [receipt EXCEPT !.ID = id]]]
        /\ UNCHANGED <<receipts, req, resp, issued, arg, ret>>

\* line 229, the argument of append: the slice as it is now
ConcRead(h) ==
    /\ pc[h] = "read"
    /\ local' = [local EXCEPT ![h].slice = receipts]
    /\ pc' = [pc EXCEPT ![h] = "write"]
    /\ UNCHANGED <<receipts, req, resp, issued, arg, ret>>

\* line 229, the assignment, and lines 232-233, the answer
ConcWrite(h) ==
    /\ pc[h] = "write"
    /\ receipts' = Append(local[h].slice, local[h].receipt)
    /\ local' = [local EXCEPT ![h].status = 200]
    /\ pc' = [pc EXCEPT ![h] = "done"]
    /\ issued' = issued \cup {[id |-> local[h].receipt.ID,
                               receipt |-> [local[h].receipt EXCEPT !.ID = <<>>]]}
    /\ UNCHANGED <<req, resp, arg, ret>>

AllDone == \A h \in Handlers : pc[h] = "done"

\* a lookup made after the handlers have answered
ConcGet(id) ==
    /\ AllDone
    /\ GetReceiptByID(id)

ConcNext ==
    \/ \E h \in Handlers, body \in Bodies : ConcValidate(h, body)
    \/ \E h \in Handlers : ConcRead(h)
    \/ \E h \in Handlers : ConcWrite(h)
    \/ \E id \in Ids : ConcGet(id)

SpecConc == ConcInit /\ [][ConcNext]_vars

----------------------------------------------------------------------------
(* Claims *)

StoredIds == {receipts[i].ID : i \in 1..Len(receipts)}

IssuedIds == {e.id : e \in issued}

\* C1: every receipt CreateReceipt accepted and stored scores >= 0, and no
\* lookup answers negative points.
C1_ScoreNonNegative ==
    /\ \A i \in 1..Len(receipts) : GetReceiptPoints(receipts[i]) >= 0
    /\ resp.kind = "points" => resp.val >= 0

\* C2: once all concurrent CreateReceipt handlers have answered, every receipt
\* a handler answered 200 for is in the store under the id returned, and a
\* lookup of that id finds it.
C2_NoLostAppend ==
    AllDone =>
        \A h \in Handlers :
            local[h].status = 200 =>
                /\ \E i \in 1..Len(receipts) : receipts[i] = local[h].receipt
                /\ (req.op = "get" /\ req.id = local[h].receipt.ID) => resp.status = 200

\* C3: a CreateReceipt whose body fails to decode, or decodes to a receipt
\* failing a Validator check, answers 400, returns no id and leaves the store
\* as it was.
C3_MalformedRejected ==
    [][ (/\ req'.op = "create"
         /\ \/ Decode(req'.body).err
            \/ ~Validate(Decode(req'.body).receipt))
        => (/\ resp'.status = 400
            /\ resp'.kind # "id"
            /\ receipts' = receipts) ]_vars

\* C4: a GetReceiptByID for an id no successful CreateReceipt has returned
\* answers 404, returns no points and leaves the store as it was.
C4_UnknownIdNotFound ==
    [][ (req'.op = "get" /\ req'.id \notin IssuedIds)
        => (/\ resp'.status = 404
            /\ resp'.kind # "points"
            /\ receipts' = receipts) ]_vars

C4_Witness ==
    /\ req.op = "get" /\ req.id \in Ids /\ req.id \notin IssuedIds
    /\ receipts # <<>>
    /\ resp.status = 404

\* C5: a lookup of an id returned for receipt R answers 200 with the points
\* of R as submitted, whatever requests came in between, and no step changes,
\* removes or replaces a stored receipt.
C5_LookupAnswersSubmitted ==
    \A e \in issued :
        (req.op = "get" /\ req.id = e.id)
            => resp = Response(200, "points", GetReceiptPoints(e.receipt))

C5_StoreAppendOnly ==
    /\ Len(receipts') >= Len(receipts)
    /\ \A i \in 1..Len(receipts) : receipts'[i] = receipts[i]

C5_StoredForGood == []C5_LookupAnswersSubmitted /\ [][C5_StoreAppendOnly]_vars

\* a purchaseTime of the form HH:MM, hour < 24, minute < 60
IsHHMM(s) ==
    /\ Len(s) = 5
    /\ IsDigit(s[1]) /\ IsDigit(s[2]) /\ s[3] = ":" /\ IsDigit(s[4]) /\ IsDigit(s[5])
    /\ DecVal(SubSeq(s, 1, 2)) < 24
    /\ DecVal(SubSeq(s, 4, 5)) < 60

\* C6: every stored receipt passes the seven checks: retailer pattern, a real
\* YYYY-MM-DD date, an HH:MM time, at least one item, each item's price and
\* description patterns, the total's price pattern.
C6_StoredPassAllChecks ==
    \A i \in 1..Len(receipts) :
        LET r == receipts[i]
        IN  /\ CheckValidDescription(r.Retailer)
            /\ ParseDateOk(r.PurchaseDate)
            /\ IsHHMM(r.PurchaseTime)
            /\ Len(r.Items) >= 1
            /\ \A k \in 1..Len(r.Items) :
                  /\ CheckPriceValidity(r.Items[k].Price)
                  /\ DescPatternMatch(r.Items[k].ShortDescription)
            /\ CheckPriceValidity(r.Total)

\* C7: the example receipt scores 28 = 6 (retailer) + 0 (total) + 16 (items)
\* + 6 (odd day) + 0 (time).
C7_ExampleScores28 ==
    (ret.fn = "GetReceiptPoints" /\ arg.receipt = ExampleReceipt)
        => /\ ret.val = 28
           /\ GetAlphanumeric(Target) = 6
           /\ GetTotalCostPoints(ExampleReceipt.Total) = 0
           /\ GetItemPoints(ExampleReceipt) = 16
           /\ GetDatePoints(ExampleReceipt.PurchaseDate) = 6
           /\ GetTimePoints(ExampleReceipt.PurchaseTime) = 0

C7_Witness == ret.fn = "GetReceiptPoints" /\ arg.receipt = ExampleReceipt

\* C8 as stated: an item described "Emils Cheese Pizza" or "Gatorade" earns 0
\* from the description-length rule whatever its price.
C8_BothContributeZero ==
    (ret.fn = "GetItemPoints"
       /\ arg.item.ShortDescription \in {EmilsCheesePizza, Gatorade})
        => ret.val = 0

\* C8 amended: "Gatorade" (8 characters) earns 0 whatever its price;
\* "Emils Cheese Pizza" (18 characters, a multiple of 3) earns ceil(price * 0.2)
\* when the price parses and 0 when it does not.
C8_GatoradeZeroEmilsFifth ==
    ret.fn = "GetItemPoints" =>
        /\ arg.item.ShortDescription = Gatorade => ret.val = 0
        /\ arg.item.ShortDescription = EmilsCheesePizza =>
              ret.val = IF ParseFloat(arg.item.Price).err THEN 0
                        ELSE CeilFifth(ParseFloat(arg.item.Price))

C8_Witness ==
    /\ ret.fn = "GetItemPoints"
    /\ arg.item = Item(EmilsCheesePizza, <<"1","2",".","2","5">>)
    /\ ret.val = 3

\* C9: GetTotalCostPoints is 75 on a total whose cents are a multiple of 100,
\* 25 on a multiple of 25 that is no multiple of 100, 0 otherwise and 0 on a
\* text that does not parse; never 50.
C9_TotalCostPoints ==
    ret.fn = "GetTotalCostPoints" =>
        LET f     == ParseFloat(arg.text)
            cents == RoundCents(f)
        IN  /\ ret.val = IF f.err THEN 0
                         ELSE IF cents % 100 = 0 THEN 75
                         ELSE IF cents % 25 = 0 THEN 25
                         ELSE 0
            /\ ret.val \in {0, 25, 75}
            /\ arg.text = <<"9",".","0","0">> => ret.val = 75
            /\ arg.text = <<"9",".","2","5">> => ret.val = 25
            /\ arg.text = <<"9",".","1","0">> => ret.val = 0

C9_Witness ==
    /\ ret.fn = "GetTotalCostPoints"
    /\ arg.text = <<"9",".","2","5">>
    /\ ret.val = 25

\* the description bonus of one item, taken alone
ItemBonus(item) ==
    IF Len(TrimSpace(item.ShortDescription)) % 3 = 0 /\ ~ParseFloat(item.Price).err
    THEN CeilFifth(ParseFloat(item.Price)) ELSE 0

RECURSIVE SumItemBonus(_)
SumItemBonus(items) ==
    IF items = <<>> THEN 0 ELSE ItemBonus(Head(items)) + SumItemBonus(Tail(items))

\* the five rules, each computed on its own field, 0 where its number does not parse
RuleSum(r) ==
    GetAlphanumeric(r.Retailer)
      + (IF ParseFloat(r.Total).err THEN 0 ELSE GetTotalCostPoints(r.Total))
      + 5 * (Len(r.Items) \div 2) + SumItemBonus(r.Items)
      + (IF Atoi(SubSeq(r.PurchaseDate, Len(r.PurchaseDate) - 1, Len(r.PurchaseDate))).err
         THEN 0 ELSE GetDatePoints(r.PurchaseDate))
      + (IF Atoi(SubSeq(r.PurchaseTime, 1, 2)).err THEN 0 ELSE GetTimePoints(r.PurchaseTime))

\* C10: on every stored receipt the day and hour extractions are defined, the
\* score is the sum of the rules with 0 for a rule (or an item's bonus) whose
\* number does not parse, and a lookup of a stored id answers 200 with it.
C10_ScorerNeverAborts ==
    /\ \A i \in 1..Len(receipts) :
          /\ Len(receipts[i].PurchaseDate) >= 2
          /\ Len(receipts[i].PurchaseTime) >= 2
          /\ GetReceiptPoints(receipts[i]) = RuleSum(receipts[i])
    /\ (req.op = "get" /\ req.id \in StoredIds)
          => /\ resp.status = 200 /\ resp.kind = "points"
             /\ \E i \in 1..Len(receipts) :
                   receipts[i].ID = req.id /\ resp.val = RuleSum(receipts[i])

C10_Witness ==
    /\ req.op = "get" /\ resp.status = 200
    /\ \E i \in 1..Len(receipts) :
          /\ receipts[i].ID = req.id
          /\ Len(receipts[i].Items) = 2
          /\ ParseFloat(receipts[i].Items[1].Price).err
          /\ ItemBonus(receipts[i].Items[2]) > 0
          /\ ParseFloat(receipts[i].Total).err
          /\ Atoi(SubSeq(receipts[i].PurchaseTime, 1, 2)).err

====
